---- MODULE Spec2Model ----
(***************************************************************************)
(* A model of ehtplot: color/uniformize.py (convert, colormap, lightness,  *)
(* linearize, symmetrize) and figure.py (Figure.save).                     *)
(*                                                                         *)
(* Representation.  A colour-map value v in [0, 1] is a point of the grid  *)
(* 0..VMax (0.0 is 0, 0.5 is Half, 1.0 is VMax).  A colour is identified   *)
(* with the grid point it was sampled at, and cm[v] is the CAM02-UCS       *)
(* lightness of the colour cm(v): v2l in the source.  A target lightness l *)
(* out of np.linspace(a, b, N) is kept as its numerator over the           *)
(* denominator N - 1, so that no rounding enters: l = num / (N - 1).  The  *)
(* root solver works at the grid's resolution: its tolerance xtol is one   *)
(* grid step.                                                              *)
(***************************************************************************)
EXTENDS Integers, Sequences, FiniteSets, TLC

VARIABLES op,     \* the function being executed
          pc,     \* position inside it
          arg,    \* the arguments of the call
          cm,     \* the colour map: lightness of cm(v) at each grid point v
          lmin, lmid, lmax, vmid,  \* locals of linearize / symmetrize
          L,      \* the target lightness sequence (numerators over N - 1)
          carr,   \* the output rows built so far: the value solved, and by whom
          warns,  \* warnings printed so far
          calls,  \* library calls made so far: minimize, bisect
          out,    \* what the call handed back: "none", "cmap", "table", "file"
          err,    \* the exception that left the call ("" is none)
          log     \* Figure.save: the calls on the plotting backend, in order

vars == <<op, pc, arg, cm, lmin, lmid, lmax, vmid, L, carr, warns, calls, out, err, log>>

\* ---------------------------------------------------------------- bounds

\* Grid resolution: 0.5 is grid point Half, 1.0 is grid point 2 * Half.
Half == 2
\* Largest sample count N tried (the code's default is 256).
MaxN == 4
\* Figure.save: most panels of a figure, most plots of a panel.
MaxPanels == 2
MaxPlots == 2

VMax == 2 * Half
Grid == 0 .. VMax
\* Lightness values a colour of a map may have (CAM02-UCS J' lies in 0..100).
Levels == {10, 50, 90}
Maps == [Grid -> Levels]

\* Python's None, for an argument left at its default.
None == -1

Abs(x) == IF x < 0 THEN -x ELSE x
Min2(a, b) == IF a < b THEN a ELSE b
Max2(a, b) == IF a > b THEN a ELSE b

\* ------------------------------------------------- scipy.optimize.bisect

\* dm *= .5 on the grid: halve towards zero.
HalfStep(dm) == IF dm >= 0 THEN dm \div 2 ELSE -((-dm) \div 2)

\* A mutant of BisectLoop: the half that is kept is the wrong one.
RECURSIVE BisectLoopWrongHalf(_, _, _, _)
BisectLoopWrongHalf(F, fa, xa, dm) ==
    IF Abs(dm) <= 1 THEN xa
    ELSE LET h  == HalfStep(dm)
             xm == xa + h
             fm == F[xm]
         IN  IF fm = 0 THEN xm
             ELSE IF fm * fa >= 0 THEN BisectLoopWrongHalf(F, fa, xa, h)
             ELSE BisectLoopWrongHalf(F, fa, xm, dm - h)

\* The bisection loop: [xa, xa + dm] keeps a sign change; F[xa] keeps the
\* sign of fa.  It stops at the grid's resolution (xtol) or on an exact zero.
RECURSIVE BisectLoop(_, _, _, _)
BisectLoop(F, fa, xa, dm) ==
    IF Abs(dm) <= 1 THEN xa
    ELSE LET h  == HalfStep(dm)
             xm == xa + h
             fm == F[xm]
         IN  IF fm = 0 THEN xm
             ELSE IF fm * fa >= 0 THEN BisectLoop(F, fa, xm, dm - h)
             ELSE BisectLoop(F, fa, xa, h)

\* bisect(f, a, b): ValueError when f(a) and f(b) have the same sign.
BisectSolve(F, a, b) ==
    IF F[a] * F[b] > 0 THEN [ok |-> FALSE, x |-> None]
    ELSE IF F[a] = 0 THEN [ok |-> TRUE, x |-> a]
    ELSE IF F[b] = 0 THEN [ok |-> TRUE, x |-> b]
    ELSE [ok |-> TRUE, x |-> BisectLoop(F, F[a], a, b - a)]

\* lambda v: v2l(v) - l, with l = num / (n - 1), scaled by n - 1.
Residual(m, n, num) == [v \in Grid |-> m[v] * (n - 1) - num]

\* np.linspace(a, b, n)[k], as a numerator over n - 1.
Linspace(a, b, n, k) == a * (n - 1) + k * (b - a)

\* ------------------------------------------------------------- linearize

LinArgs ==
    [N : 2 .. MaxN, lmin : {None, 10}, lmax : {None, 50},
     vmin : {0, 1}, vmax : {VMax}, save : {None, 1}]

InitLin ==
    /\ op = "linearize"
    /\ pc = "targets"
    /\ arg \in LinArgs
    /\ cm \in Maps
    /\ lmin = None /\ lmid = None /\ lmax = None /\ vmid = None
    /\ L = <<>> /\ carr = <<>> /\ warns = <<>>
    /\ calls = [minimize |-> 0, bisect |-> 0]
    /\ out = "none" /\ err = "" /\ log = <<>>

\* L = np.linspace(v2l(vmin) if lmin is None else lmin, ..., N)
LinTargets ==
    /\ op = "linearize" /\ pc = "targets"
    /\ lmin' = (IF arg.lmin = None THEN cm[arg.vmin] ELSE arg.lmin)
    /\ lmax' = (IF arg.lmax = None THEN cm[arg.vmax] ELSE arg.lmax)
    /\ L' = [k \in 1 .. arg.N |-> Linspace(lmin', lmax', arg.N, k - 1)]
    /\ pc' = "solve"
    /\ UNCHANGED <<op, arg, cm, lmid, vmid, carr, warns, calls, out, err, log>>

\* l2v(l) of linearize for the next l of L.
LinL2v == BisectSolve(Residual(cm, arg.N, L[Len(carr) + 1]), arg.vmin, arg.vmax)

\* A mutant of LinSolve: a failed solve is replaced by vmin, as symmetrize
\* replaces it, instead of leaving linearize.
LinSolveWithFallback ==
    /\ op = "linearize" /\ pc = "solve" /\ Len(carr) < arg.N
    /\ calls' = [calls EXCEPT !.bisect = @ + 1]
    /\ carr' = Append(carr, [v |-> IF LinL2v.ok THEN LinL2v.x ELSE arg.vmin,
                             by |-> "l2v"])
    /\ pc' = (IF Len(carr') = arg.N THEN "finish" ELSE "solve")
    /\ UNCHANGED <<op, arg, cm, lmin, lmid, lmax, vmid, L, warns, out, err, log>>

\* carr = [cm(l2v(l)) for l in L], one l at a time; bisect's ValueError
\* is not caught and leaves linearize.
LinSolve ==
    /\ op = "linearize" /\ pc = "solve" /\ Len(carr) < arg.N
    /\ calls' = [calls EXCEPT !.bisect = @ + 1]
    /\ IF LinL2v.ok
       THEN /\ carr' = Append(carr, [v |-> LinL2v.x, by |-> "l2v"])
            /\ pc' = (IF Len(carr') = arg.N THEN "finish" ELSE "solve")
            /\ err' = err
       ELSE /\ pc' = "error"
            /\ err' = "ValueError: f(a) and f(b) must have different signs"
            /\ carr' = carr
    /\ UNCHANGED <<op, arg, cm, lmin, lmid, lmax, vmid, L, warns, out, log>>

\* return ListedColormap(carr), or np.savetxt(save, carr)
LinFinish ==
    /\ op = "linearize" /\ pc = "finish"
    /\ out' = (IF arg.save = None THEN "cmap" ELSE "table")
    /\ pc' = "done"
    /\ UNCHANGED <<op, arg, cm, lmin, lmid, lmax, vmid, L, carr, warns, calls, err, log>>

NextLin == LinTargets \/ LinSolve \/ LinFinish

SpecLin == InitLin /\ [][NextLin]_vars

\* ---- claims about linearize

\* The lightness of m is monotonic over the grid points a..b.
Monotonic(m, a, b) ==
    \/ \A v, w \in a .. b : v <= w => m[v] <= m[w]
    \/ \A v, w \in a .. b : v <= w => m[v] >= m[w]

\* The root solve for the target num / (n - 1) cannot bracket: the residual
\* has the same strict sign at both ends.
NoSignChange(m, n, num, a, b) ==
    \/ m[a] * (n - 1) > num /\ m[b] * (n - 1) > num
    \/ m[a] * (n - 1) < num /\ m[b] * (n - 1) < num

\* Row v has the target lightness num / (n - 1) up to the solver's
\* resolution: exactly, when a colour of a..b has it; otherwise v and a
\* neighbour of v lie on the two sides of it.
Solves(m, n, num, a, b, v) ==
    /\ v \in a .. b
    /\ IF \E w \in a .. b : m[w] * (n - 1) = num
       THEN m[v] * (n - 1) = num
       ELSE \E w \in a .. b :
                /\ Abs(w - v) = 1
                /\ (m[v] * (n - 1) - num) * (m[w] * (n - 1) - num) < 0

\* x lies between y and z.
Between(x, y, z) == (y <= x /\ x <= z) \/ (z <= x /\ x <= y)

\* What C4 says of a call of linearize, in every state after the targets
\* were built.
LinearizedEvenly ==
    /\ pc # "error"
    /\ Len(L) = arg.N
    /\ L[1] = lmin * (arg.N - 1) /\ L[arg.N] = lmax * (arg.N - 1)
    /\ arg.lmin = None => lmin = cm[arg.vmin]
    /\ arg.lmax = None => lmax = cm[arg.vmax]
    /\ \A k \in 1 .. arg.N - 1 : L[k + 1] - L[k] = lmax - lmin
    /\ \A k \in 1 .. Len(carr) :
           Solves(cm, arg.N, L[k], arg.vmin, arg.vmax, carr[k].v)
    /\ pc = "done" => Len(carr) = arg.N /\ out \in {"cmap", "table"}

\* C3: in linearize, when the root solve of a target lightness cannot
\* bracket a sign change over [vmin, vmax], the call ends in that error: no
\* value is substituted, no colour map is returned and no table is written,
\* however many samples were solved before.
C3_BracketFailureIsFatal ==
    /\ [][(/\ op = "linearize" /\ pc = "solve"
           /\ NoSignChange(cm, arg.N, L[Len(carr) + 1], arg.vmin, arg.vmax))
          => (/\ pc' = "error" /\ err' # "" /\ out' = "none"
              /\ carr' = carr /\ warns' = warns)]_vars
    /\ [][pc = "error" => pc' = "error" /\ out' = "none"]_vars

\* C3's case: the call failed after at least one sample had been solved.
C3_Witness == op = "linearize" /\ pc = "error" /\ Len(carr) >= 1

\* C4 as claimed: for every map monotonic on [vmin, vmax] and every N >= 2
\* linearize produces N samples whose lightness is the arithmetic
\* progression from lmin to lmax (up to the solver's resolution).
C4_Original ==
    (/\ op = "linearize" /\ pc # "targets"
     /\ Monotonic(cm, arg.vmin, arg.vmax))
    => LinearizedEvenly

\* C4 as amended: the same, provided lmin and lmax (as they are by default)
\* lie within the lightness range of the map over [vmin, vmax].
C4_EvenlySpacedWhenInRange ==
    (/\ op = "linearize" /\ pc # "targets"
     /\ Monotonic(cm, arg.vmin, arg.vmax)
     /\ Between(lmin, cm[arg.vmin], cm[arg.vmax])
     /\ Between(lmax, cm[arg.vmin], cm[arg.vmax]))
    => LinearizedEvenly

\* C4's case: a finished call on a monotonic, non-constant map with the
\* largest N, where some target lightness is the lightness of no colour of
\* the map, so that the solver had to close in on a sign change.
C4_Witness ==
    /\ op = "linearize" /\ pc = "done" /\ arg.N = MaxN
    /\ Monotonic(cm, arg.vmin, arg.vmax)
    /\ cm[arg.vmin] # cm[arg.vmax]
    /\ \E k \in 1 .. arg.N : \A w \in arg.vmin .. arg.vmax :
           cm[w] * (arg.N - 1) # L[k]

\* ------------------------------------------------------------ symmetrize

\* The lightness above which a failed solve falls back to 0.5.
FallbackLightness == 75

SymArgs ==
    [N : 2 .. MaxN, lmin : {None}, lmid : {None, 10, 90}, lmax : {None, 50},
     vmin : {0, 1}, vmid : {None, Half}, vmax : {VMax}, save : {None, 1}]
    \cup [N : 2 .. MaxN, lmin : {50}, lmid : {None, 10, 90}, lmax : {None, 50},
          vmin : {0}, vmid : {None}, vmax : {VMax}, save : {None}]

InitSym ==
    /\ op = "symmetrize"
    /\ pc = "validate"
    /\ arg \in SymArgs
    /\ cm \in Maps
    /\ lmin = None /\ lmid = None /\ lmax = None /\ vmid = None
    /\ L = <<>> /\ carr = <<>> /\ warns = <<>>
    /\ calls = [minimize |-> 0, bisect |-> 0]
    /\ out = "none" /\ err = "" /\ log = <<>>

\* A mutant of NotDiverging: > in place of >=.
NotDivergingStrict(lo, mid, hi) == (hi - mid) * (mid - lo) > 0

\* (lmax - lmid) * (lmid - lmin) >= 0.0
NotDiverging(lo, mid, hi) == (hi - mid) * (mid - lo) >= 0

\* The defaults of lmin, lmid, lmax and the divergence test.
SymValidate ==
    /\ op = "symmetrize" /\ pc = "validate"
    /\ lmin' = (IF arg.lmin = None THEN cm[arg.vmin] ELSE arg.lmin)
    /\ lmid' = (IF arg.lmid = None
                THEN cm[IF arg.vmid = None THEN Half ELSE arg.vmid]
                ELSE arg.lmid)
    /\ lmax' = (IF arg.lmax = None THEN cm[arg.vmax] ELSE arg.lmax)
    /\ vmid' = arg.vmid
    /\ IF NotDiverging(lmin', lmid', lmax')
       THEN /\ pc' = "error"
            /\ err' = "ValueError: colormap does not seem to diverge"
       ELSE /\ pc' = "locate"
            /\ err' = err
    /\ UNCHANGED <<op, arg, cm, L, carr, warns, calls, out, log>>

\* One direction of a derivative-free descent: walk while the objective drops.
RECURSIVE Descend(_, _, _)
Descend(obj, x, d) ==
    IF x + d \in Grid /\ obj[x + d] < obj[x] THEN Descend(obj, x + d, d) ELSE x

\* minimize(obj, x0, method='Nelder-Mead'): the local minima a descent from
\* x0 can end in (x0 itself when no neighbour is lower).
Minimize(obj, x0) ==
    LET right == IF x0 + 1 \in Grid /\ obj[x0 + 1] < obj[x0]
                 THEN {Descend(obj, x0, 1)} ELSE {}
        left  == IF x0 - 1 \in Grid /\ obj[x0 - 1] < obj[x0]
                 THEN {Descend(obj, x0, -1)} ELSE {}
    IN  IF right \cup left = {} THEN {x0} ELSE right \cup left

\* A mutant of Objective: the two objectives are swapped.
ObjectiveSwapped ==
    IF lmax > lmid THEN [v \in Grid |-> -cm[v]] ELSE [v \in Grid |-> cm[v]]

\* v2l if lmax > lmid else v2ml
Objective == IF lmax > lmid THEN [v \in Grid |-> cm[v]] ELSE [v \in Grid |-> -cm[v]]

\* if vmid is None: the optimizer locates vmid and lmid is probed again.
SymLocate ==
    /\ op = "symmetrize" /\ pc = "locate"
    /\ IF vmid = None
       THEN \E x \in Minimize(Objective, Half) :
                /\ vmid' = x
                /\ lmid' = cm[x]
                /\ calls' = [calls EXCEPT !.minimize = @ + 1]
       ELSE UNCHANGED <<vmid, lmid, calls>>
    /\ pc' = "targets"
    /\ UNCHANGED <<op, arg, cm, lmin, lmax, L, carr, warns, out, err, log>>

\* A mutant of VTargets: the curve is anchored at lmid instead of at 0.
VTargetsAnchored(lo, mid, hi, n) ==
    LET b == Min2(lo, hi) - mid
    IN  [k \in 1 .. n |-> mid * (n - 1) + Abs(Linspace(-b, b, n, k - 1))]

\* np.absolute(np.linspace(-b, b, N)), v-shape: b = min(lmin, lmax)
VTargets(lo, mid, hi, n) ==
    LET b == Min2(lo, hi)
    IN  [k \in 1 .. n |-> Abs(Linspace(-b, b, n, k - 1))]

\* lmid - np.absolute(np.linspace(-b, b, N)), ^-shape: b = lmid - max(lmin, lmax)
CapTargets(lo, mid, hi, n) ==
    LET b == mid - Max2(lo, hi)
    IN  [k \in 1 .. n |-> mid * (n - 1) - Abs(Linspace(-b, b, n, k - 1))]

SymTargets ==
    /\ op = "symmetrize" /\ pc = "targets"
    /\ L' = (IF lmax > lmid THEN VTargets(lmin, lmid, lmax, arg.N)
                            ELSE CapTargets(lmin, lmid, lmax, arg.N))
    /\ pc' = "solve"
    /\ UNCHANGED <<op, arg, cm, lmin, lmid, lmax, vmid, carr, warns, calls, out, err, log>>

\* return 0.5 if l > 75 else 0.0 (l2vL) / 1.0 (l2vR)
Fallback(num, n, outer) == IF num > FallbackLightness * (n - 1) THEN Half ELSE outer

\* l2vL(l): bisect over [vmin, vmid]; any exception is caught.
SymL2vL(num) == BisectSolve(Residual(cm, arg.N, num), arg.vmin, vmid)
\* l2vR(l): bisect over [vmid, vmax]; any exception is caught.
SymL2vR(num) == BisectSolve(Residual(cm, arg.N, num), vmid, arg.vmax)

\* A mutant of SymSolveL: the left half is L[:(N+1)//2].
SymSolveLRoundUp ==
    /\ op = "symmetrize" /\ pc = "solve" /\ Len(carr) < (arg.N + 1) \div 2
    /\ LET num == L[Len(carr) + 1]
           r   == SymL2vL(num)
       IN  /\ calls' = [calls EXCEPT !.bisect = @ + 1]
           /\ carr' = Append(carr, [v |-> IF r.ok THEN r.x ELSE Fallback(num, arg.N, 0),
                                    by |-> "l2vL"])
           /\ warns' = IF r.ok THEN warns
                       ELSE Append(warns, [half |-> "l2vL", l |-> num])
    /\ pc' = (IF Len(carr') = arg.N THEN "finish" ELSE "solve")
    /\ UNCHANGED <<op, arg, cm, lmin, lmid, lmax, vmid, L, out, err, log>>

\* [cm(l2vL(l)) for l in L[:N//2]], one l at a time.
SymSolveL ==
    /\ op = "symmetrize" /\ pc = "solve" /\ Len(carr) < arg.N \div 2
    /\ LET num == L[Len(carr) + 1]
           r   == SymL2vL(num)
       IN  /\ calls' = [calls EXCEPT !.bisect = @ + 1]
           /\ IF r.ok
              THEN /\ carr' = Append(carr, [v |-> r.x, by |-> "l2vL"])
                   /\ warns' = warns
              ELSE /\ carr' = Append(carr, [v |-> Fallback(num, arg.N, 0), by |-> "l2vL"])
                   /\ warns' = Append(warns, [half |-> "l2vL", l |-> num])
    /\ pc' = (IF Len(carr') = arg.N THEN "finish" ELSE "solve")
    /\ UNCHANGED <<op, arg, cm, lmin, lmid, lmax, vmid, L, out, err, log>>

\* [cm(l2vR(l)) for l in L[N//2:]], one l at a time.
SymSolveR ==
    /\ op = "symmetrize" /\ pc = "solve"
    /\ Len(carr) >= arg.N \div 2 /\ Len(carr) < arg.N
    /\ LET num == L[Len(carr) + 1]
           r   == SymL2vR(num)
       IN  /\ calls' = [calls EXCEPT !.bisect = @ + 1]
           /\ IF r.ok
              THEN /\ carr' = Append(carr, [v |-> r.x, by |-> "l2vR"])
                   /\ warns' = warns
              ELSE /\ carr' = Append(carr, [v |-> Fallback(num, arg.N, VMax), by |-> "l2vR"])
                   /\ warns' = Append(warns, [half |-> "l2vR", l |-> num])
    /\ pc' = (IF Len(carr') = arg.N THEN "finish" ELSE "solve")
    /\ UNCHANGED <<op, arg, cm, lmin, lmid, lmax, vmid, L, out, err, log>>

\* return ListedColormap(carr), or np.savetxt(save, carr)
SymFinish ==
    /\ op = "symmetrize" /\ pc = "finish"
    /\ out' = (IF arg.save = None THEN "cmap" ELSE "table")
    /\ pc' = "done"
    /\ UNCHANGED <<op, arg, cm, lmin, lmid, lmax, vmid, L, carr, warns, calls, err, log>>

NextSym == SymValidate \/ SymLocate \/ SymTargets \/ SymSolveL \/ SymSolveR \/ SymFinish

SpecSym == InitSym /\ [][NextSym]_vars

\* ---- claims about symmetrize

\* lmin, lmid and lmax as the call starts with them: supplied, or probed at
\* vmin, at vmid-or-0.5 and at vmax.
StartMin == IF arg.lmin = None THEN cm[arg.vmin] ELSE arg.lmin
StartMid ==
    IF arg.lmid # None THEN arg.lmid
    ELSE IF arg.vmid = None THEN cm[Half] ELSE cm[arg.vmid]
StartMax == IF arg.lmax = None THEN cm[arg.vmax] ELSE arg.lmax

\* The states of symmetrize in which the target curve L is built.
TargetsBuilt == op = "symmetrize" /\ pc \in {"solve", "finish", "done"}

\* C1: symmetrize raises the divergence error exactly when
\* (lmax - lmid) * (lmid - lmin) >= 0, and raises it before the optimizer
\* or any root solve has run, with no colour map returned and no table
\* written; when the product is negative no error is raised.
C1_DivergenceRejected ==
    (op = "symmetrize" /\ pc # "validate")
    => IF (StartMax - StartMid) * (StartMid - StartMin) >= 0
       THEN /\ pc = "error"
            /\ err = "ValueError: colormap does not seem to diverge"
            /\ calls = [minimize |-> 0, bisect |-> 0]
            /\ carr = <<>> /\ L = <<>> /\ out = "none"
       ELSE pc # "error" /\ err = ""

\* C1's case: a map whose midpoint lightness equals an end's (the product
\* is exactly 0) was rejected.
C1_Witness ==
    /\ op = "symmetrize" /\ pc = "error"
    /\ arg.lmin = None /\ arg.lmid = None /\ arg.lmax = None
    /\ cm[Half] = cm[arg.vmin] /\ cm[Half] # cm[arg.vmax]

\* C2: when the root solve of a target lightness l fails to bracket in its
\* half, symmetrize goes on: it warns, naming the half and l, and the value
\* it substitutes is 0.5 if l > 75 and otherwise the outer endpoint of that
\* half's bracket (vmin for the left half, vmax for the right half); the
\* result has N entries.
C2_FallbackIsOuterEndpoint ==
    /\ [][(/\ op = "symmetrize" /\ pc = "solve"
           /\ LET k    == Len(carr) + 1
                  left == k <= arg.N \div 2
              IN  NoSignChange(cm, arg.N, L[k],
                               IF left THEN arg.vmin ELSE vmid,
                               IF left THEN vmid ELSE arg.vmax))
          => LET k    == Len(carr) + 1
                 left == k <= arg.N \div 2
             IN  /\ pc' \in {"solve", "finish"}
                 /\ warns' = Append(warns, [half |-> IF left THEN "l2vL" ELSE "l2vR",
                                            l |-> L[k]])
                 /\ Len(carr') = k
                 /\ carr'[k].v = (IF L[k] > FallbackLightness * (arg.N - 1)
                                  THEN Half
                                  ELSE IF left THEN arg.vmin ELSE arg.vmax)]_vars
    /\ [][op = "symmetrize" /\ pc' = "done" => Len(carr') = arg.N]_vars

\* The rows of carr produced by one of the two solvers.
RowsBy(who) == {k \in 1 .. Len(carr) : carr[k].by = who}

\* L[k] = L[N-1-k] (indices from 0), and no row of the right half precedes
\* a row of the left half.
SymmetricTargets ==
    /\ \A k \in 1 .. arg.N : L[k] = L[arg.N + 1 - k]
    /\ \A i, j \in 1 .. Len(carr) :
           i < j => ~(carr[i].by = "l2vR" /\ carr[j].by = "l2vL")

\* C5 as claimed: for every N the targets are symmetric about the midpoint
\* index, and the left half and the right half hold N/2 samples each.
C5_Original ==
    (op = "symmetrize" /\ pc \in {"finish", "done"})
    => /\ SymmetricTargets
       /\ 2 * Cardinality(RowsBy("l2vL")) = arg.N
       /\ 2 * Cardinality(RowsBy("l2vR")) = arg.N

\* C5 as amended: the targets are symmetric for every N; the left half
\* holds floor(N/2) samples and the right half the other N - floor(N/2),
\* which is N/2 each for even N only.
C5_SymmetricHalves ==
    (op = "symmetrize" /\ pc \in {"finish", "done"})
    => /\ SymmetricTargets
       /\ Cardinality(RowsBy("l2vL")) = arg.N \div 2
       /\ Cardinality(RowsBy("l2vR")) = arg.N - arg.N \div 2
       /\ Len(carr) = arg.N

\* C5's case: a finished call with an odd N and one with an even N differ
\* in the halves; this is the odd one.
C5_Witness ==
    /\ op = "symmetrize" /\ pc = "done" /\ arg.N = 3
    /\ Cardinality(RowsBy("l2vR")) = 2

\* C6: for even N the two midpoint rows of the output have the lightness
\* lmid of the detected extremum, and row 0 and row N-1 have the same
\* target lightness (each up to the solver's resolution).
C6_MidpointRowsAtExtremum ==
    (op = "symmetrize" /\ pc = "done" /\ arg.N % 2 = 0)
    => /\ Solves(cm, 2, lmid, 0, VMax, carr[arg.N \div 2].v)
       /\ Solves(cm, 2, lmid, 0, VMax, carr[arg.N \div 2 + 1].v)
       /\ L[1] = L[arg.N]
       /\ Solves(cm, arg.N, L[1], 0, VMax, carr[1].v)
       /\ Solves(cm, arg.N, L[arg.N], 0, VMax, carr[arg.N].v)

\* L falls (not strictly) over rows i..j / rises over rows i..j.
Falls(i, j) == \A k \in i .. j - 1 : L[k] >= L[k + 1]
Rises(i, j) == \A k \in i .. j - 1 : L[k] <= L[k + 1]

\* C9 as claimed: in the v-shaped branch the targets start and end at
\* b = min(lmin, lmax), fall over the first half, rise over the second and
\* have the minimum exactly 0 for every N >= 2; in the ^-shaped branch they
\* start and end at max(lmin, lmax) and peak at lmid.
C9_Original ==
    TargetsBuilt
    => IF lmax > lmid
       THEN /\ L[1] = Min2(lmin, lmax) * (arg.N - 1)
            /\ L[arg.N] = Min2(lmin, lmax) * (arg.N - 1)
            /\ Falls(1, (arg.N + 1) \div 2)
            /\ Rises(arg.N \div 2 + 1, arg.N)
            /\ \A k \in 1 .. arg.N : L[k] >= 0
            /\ \E k \in 1 .. arg.N : L[k] = 0
       ELSE /\ L[1] = Max2(lmin, lmax) * (arg.N - 1)
            /\ L[arg.N] = Max2(lmin, lmax) * (arg.N - 1)
            /\ \A k \in 1 .. arg.N : L[k] <= lmid * (arg.N - 1)
            /\ \E k \in 1 .. arg.N : L[k] = lmid * (arg.N - 1)

\* C9 as amended: the extreme value 0 (v-shape) or lmid (^-shape) is a
\* target for odd N only, at the center index; for even N the two central
\* targets are b/(N-1) (v-shape) and lmid - b/(N-1) (^-shape).  The v-shaped
\* targets are |(2k - (N-1)) b| / (N-1), whatever lmid is; the ^-shaped ones
\* start and end at max(lmin, lmax) when lmid is not below it.
C9_TargetCurve ==
    TargetsBuilt
    => LET n   == arg.N
           odd == n % 2 = 1
       IN  IF lmax > lmid
           THEN LET b == Min2(lmin, lmax)
                IN  /\ L[1] = b * (n - 1) /\ L[n] = b * (n - 1)
                    /\ Falls(1, (n + 1) \div 2)
                    /\ Rises(n \div 2 + 1, n)
                    /\ \A k \in 1 .. n : L[k] = Abs((2 * (k - 1) - (n - 1)) * b)
                    /\ \A k \in 1 .. n : L[k] >= L[(n + 1) \div 2]
                    /\ L[(n + 1) \div 2] = (IF odd THEN 0 ELSE b)
                    /\ L[n \div 2 + 1] = (IF odd THEN 0 ELSE b)
           ELSE LET b == lmid - Max2(lmin, lmax)
                IN  b >= 0 =>
                    /\ L[1] = Max2(lmin, lmax) * (n - 1)
                    /\ L[n] = Max2(lmin, lmax) * (n - 1)
                    /\ \A k \in 1 .. n : L[k] <= L[(n + 1) \div 2]
                    /\ L[(n + 1) \div 2] = lmid * (n - 1) - (IF odd THEN 0 ELSE b)
                    /\ L[n \div 2 + 1] = lmid * (n - 1) - (IF odd THEN 0 ELSE b)

\* C9's case: the v-shaped branch was taken with an even N and b > 0, so
\* that no target is 0.
C9_Witness ==
    /\ TargetsBuilt /\ lmax > lmid /\ arg.N = 4
    /\ Min2(lmin, lmax) > 0 /\ arg.lmid = None /\ arg.vmid = None

\* The shape the target curve is built for is the shape the call started
\* with; with vmid supplied the optimizer did not run and lmid is as probed.
ShapeKept ==
    /\ (lmax > lmid) <=> (StartMax > StartMid)
    /\ lmax = StartMax /\ lmin = StartMin
    /\ arg.vmid # None => calls.minimize = 0 /\ lmid = StartMid /\ vmid = arg.vmid
    /\ arg.vmid = None => calls.minimize = 1 /\ lmid = cm[vmid]

\* C10 as claimed: for every combination of supplied or defaulted lmin,
\* lmid, lmax and vmid, probing lmid again at the located vmid never changes
\* the sign of lmax - lmid.
C10_Original == TargetsBuilt => ShapeKept

\* C10 as amended: the same, unless lmid is supplied while vmid is not (the
\* supplied lmid is then replaced by the lightness at the located vmid,
\* which need not lie on the same side of lmax).
C10_ShapeKeptWhenMidProbed ==
    (TargetsBuilt /\ (arg.lmid = None \/ arg.vmid # None)) => ShapeKept

\* C10's case: the optimizer ran and moved away from 0.5, so lmid changed.
C10_Witness ==
    /\ TargetsBuilt /\ arg.lmid = None /\ arg.vmid = None
    /\ calls.minimize = 1 /\ vmid # Half /\ lmid # StartMid

\* ----------------------------------------------------- convert, colormap

\* What a saturation profile may return at a sample position, in tenths
\* (5 is 0.5, 10 is exactly 1.0, 12 is 1.2).
SatValues == {5, 10, 12}
\* The type of the number a profile returns: a Python float (an arithmetic
\* on the fraction f alone), or a numpy.float64 (a numpy function of f).
SatKinds == {"float", "float64"}

\* saturation=None: no profile is given.
NoProfile == <<>>

CmapArgs ==
    UNION {[N : {n}, darkest : {0, 50}, lightest : {50, 100},
            saturation : {NoProfile} \cup [0 .. n - 1 -> SatValues],
            kind : SatKinds] : n \in 2 .. MaxN}

InitCmap ==
    /\ op = "colormap"
    /\ pc = "convert"
    /\ arg \in CmapArgs
    /\ cm = <<>>
    /\ lmin = None /\ lmid = None /\ lmax = None /\ vmid = None
    /\ L = <<>> /\ carr = <<>> /\ warns = <<>>
    /\ calls = [minimize |-> 0, bisect |-> 0]
    /\ out = "none" /\ err = "" /\ log = <<>>

\* Jp = darkest + f * (lightest - darkest) with f = i / (N - 1.0), as a
\* numerator over N - 1.
Jp(i) == arg.darkest * (arg.N - 1) + i * (arg.lightest - arg.darkest)

\* 1.0 - s*s, in hundredths; sqrt(0.5) when no profile is given.
Radicand(i) ==
    IF arg.saturation = NoProfile THEN 50
    ELSE 100 - arg.saturation[i] * arg.saturation[i]

\* Cp = Jp * s / sqrt(1.0 - s*s): math.sqrt raises ValueError on a negative
\* radicand; a division by 0.0 raises ZeroDivisionError when Jp * s is a
\* Python float, and gives inf or nan (with a warning only) when it is a
\* numpy.float64.  With hue None, Cp * sin(0.0) is nan for both.
Chroma(i) ==
    IF Radicand(i) < 0 THEN "ValueError: math domain error"
    ELSE IF Radicand(i) > 0 THEN "finite"
    ELSE IF arg.kind = "float" THEN "ZeroDivisionError: float division by zero"
    ELSE IF Jp(i) > 0 THEN "inf" ELSE "nan"

\* convert(i, N, ...) for the next i of range(N): the sample is clipped to
\* [0, 1], which leaves a nan a nan; an exception leaves colormap.
CmapConvert ==
    /\ op = "colormap" /\ pc = "convert" /\ Len(carr) < arg.N
    /\ LET i == Len(carr)
           c == Chroma(i)
       IN  IF c \in {"finite", "inf", "nan"}
           THEN /\ carr' = Append(carr, [J |-> Jp(i),
                                         rgb |-> IF c = "finite" THEN "in [0,1]" ELSE "nan"])
                /\ pc' = (IF Len(carr') = arg.N THEN "finish" ELSE "convert")
                /\ err' = err
           ELSE /\ pc' = "error" /\ err' = c /\ carr' = carr
    /\ UNCHANGED <<op, arg, cm, lmin, lmid, lmax, vmid, L, warns, calls, out, log>>

\* return ListedColormap([...])
CmapFinish ==
    /\ op = "colormap" /\ pc = "finish"
    /\ out' = "cmap" /\ pc' = "done"
    /\ UNCHANGED <<op, arg, cm, lmin, lmid, lmax, vmid, L, carr, warns, calls, err, log>>

NextCmap == CmapConvert \/ CmapFinish

SpecCmap == InitCmap /\ [][NextCmap]_vars

\* C7: colour-map construction with a saturation profile that returns
\* s >= 1 at some sample position ends in an error: no colour map is
\* returned and no sample with a NaN or Inf channel is ever produced.
C7_SaturationErrorPropagates ==
    (/\ op = "colormap" /\ arg.saturation # NoProfile
     /\ \E i \in 0 .. arg.N - 1 : arg.saturation[i] >= 10)
    => /\ pc \in {"convert", "error"}
       /\ out = "none"
       /\ \A k \in 1 .. Len(carr) : carr[k].rgb # "nan"

\* ------------------------------------------------------------ Figure.save

\* The plot callables a panel may hold.
Callables == {"p", "q"}

RECURSIVE SeqsUpTo(_, _)
SeqsUpTo(S, n) ==
    IF n = 0 THEN {<<>>}
    ELSE LET shorter == SeqsUpTo(S, n - 1)
         IN  shorter \cup {Append(q, x) : q \in shorter, x \in S}

\* Figure.panels: a list of panels, each a list P.plots of callables.
PanelLists == SeqsUpTo(SeqsUpTo(Callables, MaxPlots), MaxPanels) \ {<<>>}

InitFig ==
    /\ op = "save"
    /\ pc = "set_themes"
    /\ arg \in [panels : PanelLists, file : {"out.pdf"}, style : {"default"}]
    /\ cm = <<>>
    /\ lmin = None /\ lmid = None /\ lmax = None /\ vmid = None
    /\ L = <<>> /\ carr = <<>> /\ warns = <<>>
    /\ calls = [minimize |-> 0, bisect |-> 0]
    /\ out = "none" /\ err = "" /\ log = <<>>

\* One call on the backend: what was called, for a plot call the panel, the
\* position in P.plots and the callable, the surface it acted on (0: none),
\* and whether it raised.
Event(call, P, p, f, surface, raised) ==
    [call |-> call, panel |-> P, plot |-> p, callable |-> f,
     surface |-> surface, raised |-> raised]

\* for P in self.panels: for p in P.plots: the plots in the order of the loops.
RECURSIVE PlotsFrom(_, _, _)
PlotsFrom(panels, P, p) ==
    IF P > Len(panels) THEN <<>>
    ELSE IF p > Len(panels[P]) THEN PlotsFrom(panels, P + 1, 1)
    ELSE <<[panel |-> P, plot |-> p, callable |-> panels[P][p]]>>
         \o PlotsFrom(panels, P, p + 1)

PlotOrder == PlotsFrom(arg.panels, 1, 1)

\* The plot calls made so far.
Plotted == Len(SelectSeq(log, LAMBDA e : e.call = "plot"))

\* set_themes(style)
FigSetThemes ==
    /\ op = "save" /\ pc = "set_themes"
    /\ log' = Append(log, Event("set_themes", 0, 0, arg.style, 0, FALSE))
    /\ pc' = "subplots"
    /\ UNCHANGED <<op, arg, cm, lmin, lmid, lmax, vmid, L, carr, warns, calls, out, err>>

\* fig, axes = plt.subplots(1, 1): surface 1.
FigSubplots ==
    /\ op = "save" /\ pc = "subplots"
    /\ log' = Append(log, Event("subplots", 0, 0, "", 1, FALSE))
    /\ pc' = (IF PlotOrder = <<>> THEN "savefig" ELSE "plot")
    /\ UNCHANGED <<op, arg, cm, lmin, lmid, lmax, vmid, L, carr, warns, calls, out, err>>

\* A mutant of FigPlotRaises: the exception of a plot callable is swallowed
\* and the loop goes on.
FigPlotRaisesSwallowed ==
    /\ op = "save" /\ pc = "plot"
    /\ LET n == PlotOrder[Plotted + 1]
       IN  log' = Append(log, Event("plot", n.panel, n.plot, n.callable, 1, TRUE))
    /\ pc' = (IF Plotted + 1 = Len(PlotOrder) THEN "savefig" ELSE "plot")
    /\ UNCHANGED <<op, arg, cm, lmin, lmid, lmax, vmid, L, carr, warns, calls, out, err>>

\* p(axes), returning.
FigPlot ==
    /\ op = "save" /\ pc = "plot"
    /\ LET n == PlotOrder[Plotted + 1]
       IN  log' = Append(log, Event("plot", n.panel, n.plot, n.callable, 1, FALSE))
    /\ pc' = (IF Plotted + 1 = Len(PlotOrder) THEN "savefig" ELSE "plot")
    /\ UNCHANGED <<op, arg, cm, lmin, lmid, lmax, vmid, L, carr, warns, calls, out, err>>

\* p(axes), raising: nothing catches it, save is left.
FigPlotRaises ==
    /\ op = "save" /\ pc = "plot"
    /\ LET n == PlotOrder[Plotted + 1]
       IN  log' = Append(log, Event("plot", n.panel, n.plot, n.callable, 1, TRUE))
    /\ pc' = "error"
    /\ err' = "exception of a plot callable"
    /\ UNCHANGED <<op, arg, cm, lmin, lmid, lmax, vmid, L, carr, warns, calls, out>>

\* fig.savefig(file)
FigSavefig ==
    /\ op = "save" /\ pc = "savefig"
    /\ log' = Append(log, Event("savefig", 0, 0, arg.file, 1, FALSE))
    /\ out' = "file"
    /\ pc' = "done"
    /\ UNCHANGED <<op, arg, cm, lmin, lmid, lmax, vmid, L, carr, warns, calls, err>>

NextFig == FigSetThemes \/ FigSubplots \/ FigPlot \/ FigPlotRaises \/ FigSavefig

SpecFig == InitFig /\ [][NextFig]_vars

\* The calls of a save in which no plot callable fails.
FullRun ==
    LET order == PlotOrder
    IN  <<Event("set_themes", 0, 0, arg.style, 0, FALSE),
          Event("subplots", 0, 0, "", 1, FALSE)>>
        \o [k \in 1 .. Len(order) |->
               Event("plot", order[k].panel, order[k].plot, order[k].callable, 1, FALSE)]
        \o <<Event("savefig", 0, 0, arg.file, 1, FALSE)>>

\* The panels and plots in the order the claim gives: every plot of every
\* panel, panel by panel, and within a panel plot by plot.
InPanelThenPlotOrder ==
    LET order == PlotOrder
    IN  /\ {<<order[k].panel, order[k].plot>> : k \in 1 .. Len(order)}
               = UNION {{<<P, p>> : p \in 1 .. Len(arg.panels[P])} :
                           P \in 1 .. Len(arg.panels)}
        /\ \A k \in 1 .. Len(order) :
               /\ order[k].callable = arg.panels[order[k].panel][order[k].plot]
               /\ k > 1 =>
                      \/ order[k - 1].panel < order[k].panel
                      \/ /\ order[k - 1].panel = order[k].panel
                         /\ order[k - 1].plot < order[k].plot

\* C8: Figure.save applies the theme, then creates one drawing surface,
\* then calls every plot callable of every panel once on that surface, in
\* panel order and within a panel in plot order, and exports the surface
\* only after the last plot callable returned; when a plot callable fails
\* the export does not happen.
C8_SaveOrder ==
    op = "save"
    => LET full == FullRun
       IN  /\ InPanelThenPlotOrder
           /\ \/ /\ pc # "error"
                 /\ Len(log) <= Len(full)
                 /\ log = SubSeq(full, 1, Len(log))
                 /\ pc = "done" <=> log = full
                 /\ out = (IF pc = "done" THEN "file" ELSE "none")
              \/ /\ pc = "error"
                 /\ out = "none"
                 /\ Len(log) < Len(full)
                 /\ log[Len(log)].raised /\ log[Len(log)].call = "plot"
                 /\ \A k \in 1 .. Len(log) - 1 : log[k] = full[k]
                 /\ \A k \in 1 .. Len(log) : log[k].call # "savefig"

\* C8's case: a figure of two panels with two plots each was saved.
C8_Witness ==
    /\ op = "save" /\ pc = "done"
    /\ Len(arg.panels) = 2
    /\ Len(arg.panels[1]) = 2 /\ Len(arg.panels[2]) = 2
    /\ arg.panels[1][1] # arg.panels[1][2]

====
